---- MODULE Spec2Model ----
(***************************************************************************)
(* Model of src/index.ts of limited-github-cli-mcp: the CallTool request   *)
(* handler (dispatch on the tool name, argument validators, command        *)
(* builders, try/catch around executeGhCommand) and executeGhCommand.      *)
(*                                                                         *)
(* Text is a sequence of fragments.  A fragment is either one character of *)
(* caller-supplied text or one literal piece of a template of the source,  *)
(* so a template literal `a ${x} b` is the concatenation <<"a ">> \o x \o  *)
(* <<" b">>.                                                               *)
(***************************************************************************)
EXTENDS Integers, Sequences, FiniteSets

\* ---------------------------------------------------------------- bounds
\* longest caller-supplied text, largest magnitude of a caller-supplied number,
\* handler invocations that can exist at once, requests waiting on the channel
MaxLen == 1
MaxNum == 6
MaxSlots == 2
MaxInbox == 1

\* ------------------------------------------------------------ JS values
Chars == {"a", "\""}

RECURSIVE TextsUpTo(_)
TextsUpTo(n) ==
  IF n = 0 THEN {<<>>}
  ELSE LET shorter == TextsUpTo(n - 1)
       IN  shorter \cup {Append(s, c) : s \in {x \in shorter : Len(x) = n - 1}, c \in Chars}

Texts == TextsUpTo(MaxLen)

Undefined == [t |-> "undefined", v |-> 0]
Null == [t |-> "null", v |-> 0]
Infinity == [t |-> "infinity", v |-> 0]
Bool(b) == [t |-> "boolean", v |-> b]
\* a finite number is kept as twice its value, so that halves are exact
Num(twice) == [t |-> "number", v |-> twice]
Str(s) == [t |-> "string", v |-> s]
Obj(fields) == [t |-> "object", v |-> fields]

Int2(n) == Num(2 * n)

\* typeof x
typeof(x) ==
  CASE x.t = "null" -> "object"
    [] x.t = "infinity" -> "number"
    [] OTHER -> x.t

\* Number.isInteger(x), for x of type number
NumberIsInteger(x) == x.t = "number" /\ x.v % 2 = 0

\* x > 0, for x of type number
GreaterThanZero(x) == x.t = "infinity" \/ (x.t = "number" /\ x.v > 0)

\* the truthiness test of `if (x)`
Truthy(x) ==
  CASE x.t = "undefined" -> FALSE
    [] x.t = "null" -> FALSE
    [] x.t = "boolean" -> x.v
    [] x.t = "number" -> x.v # 0
    [] x.t = "infinity" -> TRUE
    [] x.t = "string" -> x.v # <<>>
    [] OTHER -> TRUE

Digit(d) ==
  CASE d = 0 -> "0" [] d = 1 -> "1" [] d = 2 -> "2" [] d = 3 -> "3"
    [] d = 4 -> "4" [] d = 5 -> "5" [] d = 6 -> "6" [] d = 7 -> "7"
    [] d = 8 -> "8" [] d = 9 -> "9"

RECURSIVE Digits(_)
Digits(n) == IF n < 10 THEN <<Digit(n)>> ELSE Append(Digits(n \div 10), Digit(n % 10))

Abs(n) == IF n < 0 THEN 0 - n ELSE n

\* `${x}` for a value x: the text of a string, the decimal form of a number
JsToString(x) ==
  CASE x.t = "string" -> x.v
    [] x.t = "infinity" -> <<"Infinity">>
    [] x.t = "number" ->
         (IF x.v < 0 THEN <<"-">> ELSE <<>>)
           \o Digits(Abs(x.v) \div 2)
           \o (IF x.v % 2 = 0 THEN <<>> ELSE <<".", "5">>)
    [] x.t = "boolean" -> IF x.v THEN <<"true">> ELSE <<"false">>
    [] OTHER -> <<x.t>>

\* -------------------------------------------------------------- requests
Fields == {"title", "body", "base", "head", "draft", "state", "limit", "number"}

NoFields == [f \in Fields |-> Undefined]

StateEnum == {<<"open">>, <<"closed">>, <<"merged">>, <<"all">>}

Numbers == {Num(k) : k \in (0 - 2 * MaxNum)..(2 * MaxNum)} \cup {Infinity}

TextVals == {Str(s) : s \in Texts}

TextFieldVals == {Undefined, Int2(1)} \cup TextVals
OptTextVals == {Undefined} \cup TextVals
DraftVals == {Undefined, Bool(TRUE), Bool(FALSE), Str(<<"a">>)}
StateVals == {Undefined, Null, Str(<<>>), Str(<<"a">>), Int2(1)} \cup {Str(s) : s \in StateEnum}
NumberVals == {Undefined, Null, Str(<<"5">>)} \cup Numbers

CreateArgs ==
  {Obj([NoFields EXCEPT !.title = ti, !.body = bo, !.base = ba, !.head = he, !.draft = dr]) :
     ti \in TextFieldVals, bo \in TextFieldVals, ba \in OptTextVals,
     he \in OptTextVals, dr \in DraftVals}

ListArgs ==
  {Obj([NoFields EXCEPT !.state = st, !.base = ba, !.limit = li]) :
     st \in StateVals, ba \in TextFieldVals, li \in NumberVals}

ViewArgs == {Obj([NoFields EXCEPT !.number = nu]) : nu \in NumberVals}

CommentArgs ==
  {Obj([NoFields EXCEPT !.number = nu, !.body = bo]) :
     nu \in NumberVals, bo \in TextFieldVals}

\* request.params.arguments: absent, null, not an object, or an object
Arguments ==
  {Undefined, Null, Str(<<"a">>)} \cup CreateArgs \cup ListArgs \cup ViewArgs \cup CommentArgs

KnownTools == {"create_pr", "list_prs", "view_pr", "comment_pr"}
ToolNames == KnownTools \cup {"merge_pr"}

Requests == [name : ToolNames, arguments : Arguments]

\* args.f; reading a field of a non-object primitive gives undefined
\* (the validators test typeof args === 'object' && args !== null first)
Get(args, f) == IF args.t = "object" THEN args.v[f] ELSE Undefined

IsRecord(args) == typeof(args) = "object" /\ args.t # "null"

\* ------------------------------------------------------------ validators
OptionalString(x) == x = Undefined \/ typeof(x) = "string"

isValidCreatePrArgs(args) ==
  /\ IsRecord(args)
  /\ typeof(Get(args, "title")) = "string"
  /\ OptionalString(Get(args, "body"))
  /\ OptionalString(Get(args, "base"))
  /\ OptionalString(Get(args, "head"))
  /\ (Get(args, "draft") = Undefined \/ typeof(Get(args, "draft")) = "boolean")

isValidListPrArgs_anyState(args) ==
  /\ IsRecord(args)
  /\ OptionalString(Get(args, "base"))
  /\ (Get(args, "limit") = Undefined \/ typeof(Get(args, "limit")) = "number")

isValidListPrArgs(args) ==
  /\ IsRecord(args)
  /\ (Get(args, "state") = Undefined
        \/ (Get(args, "state").t = "string" /\ Get(args, "state").v \in StateEnum))
  /\ OptionalString(Get(args, "base"))
  /\ (Get(args, "limit") = Undefined \/ typeof(Get(args, "limit")) = "number")

isValidViewPrArgs_noSign(args) ==
  /\ IsRecord(args)
  /\ typeof(Get(args, "number")) = "number"
  /\ NumberIsInteger(Get(args, "number"))

isValidViewPrArgs(args) ==
  /\ IsRecord(args)
  /\ typeof(Get(args, "number")) = "number"
  /\ NumberIsInteger(Get(args, "number"))
  /\ GreaterThanZero(Get(args, "number"))

isValidCommentPrArgs(args) ==
  /\ IsRecord(args)
  /\ typeof(Get(args, "number")) = "number"
  /\ NumberIsInteger(Get(args, "number"))
  /\ GreaterThanZero(Get(args, "number"))
  /\ typeof(Get(args, "body")) = "string"

Validator(name, args) ==
  CASE name = "create_pr" -> isValidCreatePrArgs(args)
    [] name = "list_prs" -> isValidListPrArgs(args)
    [] name = "view_pr" -> isValidViewPrArgs(args)
    [] name = "comment_pr" -> isValidCommentPrArgs(args)
    [] OTHER -> FALSE

\* -------------------------------------------------------------- builders
\* command += ` --flag "${x}"` when x is truthy
Quoted(flag, x) == IF Truthy(x) THEN <<flag>> \o JsToString(x) \o <<"\"">> ELSE <<>>

\* command += ` --flag ${x}` when x is truthy
Bare(flag, x) == IF Truthy(x) THEN <<flag>> \o JsToString(x) ELSE <<>>

BuildCreatePr(args) ==
  <<"pr create --title \"">> \o JsToString(Get(args, "title")) \o <<"\"">>
    \o Quoted(" --body \"", Get(args, "body"))
    \o Quoted(" --base \"", Get(args, "base"))
    \o Quoted(" --head \"", Get(args, "head"))
    \o (IF Truthy(Get(args, "draft")) THEN <<" --draft">> ELSE <<>>)

BuildListPrs(args) ==
  <<"pr list">>
    \o Bare(" --state ", Get(args, "state"))
    \o Bare(" --base ", Get(args, "base"))
    \o Bare(" --limit ", Get(args, "limit"))

BuildViewPr(args) == <<"pr view ">> \o JsToString(Get(args, "number"))

BuildCommentPr(args) ==
  <<"pr comment ">> \o JsToString(Get(args, "number"))
    \o <<" --body \"">> \o JsToString(Get(args, "body")) \o <<"\"">>

Builder(name, args) ==
  CASE name = "create_pr" -> BuildCreatePr(args)
    [] name = "list_prs" -> BuildListPrs(args)
    [] name = "view_pr" -> BuildViewPr(args)
    [] name = "comment_pr" -> BuildCommentPr(args)

\* ------------------------------------------------------- errors, replies
\* new McpError(code, message); McpError extends Error, and its constructor
\* puts the error code in front of the message it is given
McpError(code, message) ==
  [class |-> "McpError", code |-> code, message |-> <<"MCP error ", code, ": ">> \o message]

\* what execSync throws: an Error instance whose message is the failure text
ExecError(message) == [class |-> "Error", code |-> "none", message |-> message]

InstanceOfError(e) == e.class \in {"Error", "McpError"}
InstanceOfMcpError(e) == e.class = "McpError"

\* what became of the execSync call of an invocation
NoExec == [kind |-> "none"]
ExecOk(stdout) == [kind |-> "ok", stdout |-> stdout]
ExecFailed(error) == [kind |-> "throw", error |-> error]

\* return {content: [{type: 'text', text: result}]}
SuccessReply_flagged(result) ==
  [content |-> <<[type |-> "text", text |-> result]>>, isError |-> TRUE]

SuccessReply(result) == [content |-> <<[type |-> "text", text |-> result]>>]

\* return {content: [{type: 'text', text: error.message}], isError: true}
ErrorReply(message) ==
  [content |-> <<[type |-> "text", text |-> message]>>, isError |-> TRUE]

NoOutcome == [kind |-> "none"]
Returned(reply) == [kind |-> "reply", reply |-> reply]
Thrown(error) == [kind |-> "failure", error |-> error]

\* the catch block of executeGhCommand: the value it throws for a caught one
executeGhCommandCatch_raw(error) == error

executeGhCommandCatch(error) ==
  IF InstanceOfError(error)
  THEN McpError("InternalError", <<"GitHub CLI error: ">> \o error.message)
  ELSE error

\* the catch block around executeGhCommand in each case of the handler
HandlerCatch(error) ==
  IF InstanceOfMcpError(error) THEN Returned(ErrorReply(error.message)) ELSE Thrown(error)

\* throw new McpError(ErrorCode.InvalidParams, 'Invalid <tool> arguments')
InvalidParams_flagged(name) ==
  Returned(ErrorReply(<<"Invalid ", name, " arguments">>))

InvalidParams(name) == Thrown(McpError("InvalidParams", <<"Invalid ", name, " arguments">>))

\* throw new McpError(ErrorCode.MethodNotFound, `Unknown tool: ${name}`)
MethodNotFound_flagged(name) == Returned(ErrorReply(<<"Unknown tool: ", name>>))

MethodNotFound(name) == Thrown(McpError("MethodNotFound", <<"Unknown tool: ", name>>))

\* ------------------------------------------------------------ the server
\* execSync(`gh ${command}`, {encoding: 'utf8'}): the command line run
CommandLine(command) == <<"gh ">> \o command

\* what the external command can print on its two output streams
Outputs == {<<>>, <<"o">>}
ErrorOutputs == {<<>>, <<"e">>}

\* the values execSync can throw for a command line.  It reports every
\* failure (non-zero exit status, a signal, a shell that cannot be spawned)
\* by throwing an Error instance, so no other kind of value is drawn here.
ExecFailures(command) ==
  {ExecError(<<"Command failed: ">> \o CommandLine(command) \o <<"\n">> \o err) :
     err \in ErrorOutputs}
    \cup {ExecError(<<"spawnSync /bin/sh ENOENT">>)}

NoRequest == [name |-> "none", arguments |-> Undefined]

IdleSlot ==
  [pc |-> "idle", req |-> NoRequest, command |-> <<>>, execs |-> 0,
   exec |-> NoExec, outcome |-> NoOutcome]

VARIABLES
  inbox,    \* requests received on the channel whose handler has not begun
  slots,    \* the handler invocations: position, request, command, outcome
  running   \* external commands running

vars == <<inbox, slots, running>>

Slots == 1..MaxSlots

Init ==
  /\ inbox = 0
  /\ slots = [i \in Slots |-> IdleSlot]
  /\ running = 0

\* an invocation occupies the thread from its first statement to its return;
\* execSync blocks, so that includes the time the external command runs
OnStack_async(s) == s.pc \notin {"idle", "wait"}

OnStack(s) == s.pc # "idle"

\* a request arrives on the channel
Arrive ==
  /\ inbox < MaxInbox
  /\ inbox' = inbox + 1
  /\ UNCHANGED <<slots, running>>

\* the handler is invoked for a waiting request, once the thread is free;
\* the invocation takes the first free slot
Invoke(i) ==
  /\ inbox > 0
  /\ \A j \in Slots : ~OnStack(slots[j])
  /\ slots[i].pc = "idle"
  /\ \A j \in Slots : j < i => slots[j].pc # "idle"
  /\ inbox' = inbox - 1
  /\ \E r \in Requests :
       slots' = [slots EXCEPT ![i] = [IdleSlot EXCEPT !.pc = "dispatch", !.req = r]]
  /\ UNCHANGED running

\* switch (request.params.name) and the validator of the case
AfterDispatch(s) ==
  IF s.req.name \notin KnownTools
  THEN [s EXCEPT !.pc = "thrown", !.outcome = MethodNotFound(s.req.name)]
  ELSE IF ~Validator(s.req.name, s.req.arguments)
  THEN [s EXCEPT !.pc = "thrown", !.outcome = InvalidParams(s.req.name)]
  ELSE [s EXCEPT !.pc = "build"]

Dispatch(i) ==
  /\ slots[i].pc = "dispatch"
  /\ slots' = [slots EXCEPT ![i] = AfterDispatch(@)]
  /\ UNCHANGED <<inbox, running>>

\* the command suffix is assembled
Build(i) ==
  /\ slots[i].pc = "build"
  /\ slots' = [slots EXCEPT ![i].pc = "call",
                            ![i].command = Builder(slots[i].req.name, slots[i].req.arguments)]
  /\ UNCHANGED <<inbox, running>>

\* executeGhCommand(command): execSync starts the external command
Exec(i) ==
  /\ slots[i].pc = "call"
  /\ slots' = [slots EXCEPT ![i].pc = "wait", ![i].execs = @ + 1]
  /\ running' = running + 1
  /\ UNCHANGED inbox

\* execSync returns the captured standard output; the handler returns it
ExecReturn(i) ==
  /\ slots[i].pc = "wait"
  /\ \E out \in Outputs :
       slots' = [slots EXCEPT ![i].pc = "returned", ![i].exec = ExecOk(out),
                              ![i].outcome = Returned(SuccessReply(out))]
  /\ running' = running - 1
  /\ UNCHANGED inbox

\* execSync throws; executeGhCommand and then the handler catch
AfterThrow_retry(s, e) ==
  IF s.execs < 2
  THEN [s EXCEPT !.pc = "call"]
  ELSE [s EXCEPT !.pc = "returned", !.exec = ExecFailed(e),
                 !.outcome = HandlerCatch(executeGhCommandCatch(e))]

AfterThrow(s, e) ==
  LET outcome == HandlerCatch(executeGhCommandCatch(e))
  IN  [s EXCEPT !.pc = IF outcome.kind = "reply" THEN "returned" ELSE "thrown",
                !.exec = ExecFailed(e), !.outcome = outcome]

ExecThrow(i) ==
  /\ slots[i].pc = "wait"
  /\ \E e \in ExecFailures(slots[i].command) :
       slots' = [slots EXCEPT ![i] = AfterThrow(@, e)]
  /\ running' = running - 1
  /\ UNCHANGED inbox

\* the invocation ends: its reply or failure goes back to the caller
Finish(i) ==
  /\ slots[i].pc \in {"returned", "thrown"}
  /\ slots' = [slots EXCEPT ![i] = IdleSlot]
  /\ UNCHANGED <<inbox, running>>

Next ==
  \/ Arrive
  \/ \E i \in Slots : Invoke(i)
  \/ \E i \in Slots : Dispatch(i)
  \/ \E i \in Slots : Build(i)
  \/ \E i \in Slots : Exec(i)
  \/ \E i \in Slots : ExecReturn(i)
  \/ \E i \in Slots : ExecThrow(i)
  \/ \E i \in Slots : Finish(i)

Spec == Init /\ [][Next]_vars

\* ------------------------------------------------------------ properties
\* sub occurs in text as a run of consecutive fragments
Contains(text, sub) ==
  \E k \in 0..(Len(text) - Len(sub)) : SubSeq(text, k + 1, k + Len(sub)) = sub

\* the number of fragments of text equal to the fragment flag
Count(flag, text) == Cardinality({k \in 1..Len(text) : text[k] = flag})

\* the invocations whose switch and validator have run
Dispatched == {i \in Slots : slots[i].pc \notin {"idle", "dispatch"}}

\* the invocations whose command suffix has been built
Built == {i \in Slots : slots[i].pc \in {"call", "wait"} \/ slots[i].exec # NoExec}

\* the invocations that have returned a reply or thrown a failure
Ended == {i \in Slots : slots[i].pc \in {"returned", "thrown"}}

ExecutorFailed(s) == s.exec.kind = "throw"

IsFlaggedReply(o) ==
  /\ o.kind = "reply"
  /\ "isError" \in DOMAIN o.reply
  /\ o.reply.isError = TRUE

IsProtocolFailure(o, code) == o.kind = "failure" /\ o.error.code = code

\* C1: when the Command Executor fails in a call whose arguments passed
\* validation, the call returns a reply with isError = true whose single text
\* block contains the underlying error text; it never ends as a failure.
C1_ExecutorFailureIsFlaggedReply ==
  \A i \in Slots :
    ExecutorFailed(slots[i]) =>
      /\ slots[i].pc = "returned"
      /\ IsFlaggedReply(slots[i].outcome)
      /\ Len(slots[i].outcome.reply.content) = 1
      /\ slots[i].outcome.reply.content[1].type = "text"
      /\ Contains(slots[i].outcome.reply.content[1].text, slots[i].exec.error.message)

C1_Witness ==
  \E i \in Slots :
    /\ slots[i].req.name = "comment_pr"
    /\ ExecutorFailed(slots[i])
    /\ slots[i].exec.error.message = <<"spawnSync /bin/sh ENOENT">>
    /\ IsFlaggedReply(slots[i].outcome)

\* C2: a request to one of the four tools whose arguments the validator
\* rejects ends as an 'invalid parameters' failure naming the tool, and no
\* reply envelope is produced for it.
C2_RejectedArgsIsInvalidParams ==
  \A i \in Dispatched :
    (slots[i].req.name \in KnownTools
       /\ ~Validator(slots[i].req.name, slots[i].req.arguments)) =>
      /\ slots[i].pc = "thrown"
      /\ IsProtocolFailure(slots[i].outcome, "InvalidParams")
      /\ Contains(slots[i].outcome.error.message, <<slots[i].req.name>>)
      /\ slots[i].exec = NoExec

C2_Witness ==
  \E i \in Ended :
    /\ slots[i].req.name = "create_pr"
    /\ Get(slots[i].req.arguments, "title") = Undefined
    /\ IsProtocolFailure(slots[i].outcome, "InvalidParams")

\* C3: a request whose tool name is not one of the four ends as a 'method not
\* found' failure naming the unknown tool, whatever its arguments; no reply.
C3_UnknownToolIsMethodNotFound ==
  \A i \in Dispatched :
    slots[i].req.name \notin KnownTools =>
      /\ slots[i].pc = "thrown"
      /\ IsProtocolFailure(slots[i].outcome, "MethodNotFound")
      /\ Contains(slots[i].outcome.error.message, <<slots[i].req.name>>)
      /\ slots[i].exec = NoExec

C3_Witness ==
  \E i \in Ended :
    /\ slots[i].req.name = "merge_pr"
    /\ isValidViewPrArgs(slots[i].req.arguments)
    /\ IsProtocolFailure(slots[i].outcome, "MethodNotFound")

\* the flag segment the claims expect for a supplied field
QuotedSegment(flag, x) == <<flag>> \o JsToString(x) \o <<"\"">>
BareSegment(flag, x) == <<flag>> \o JsToString(x)

FlagOmitted(flag, command) == Count(flag, command) = 0
FlagOnce(flag, segment, command) == Count(flag, command) = 1 /\ Contains(command, segment)

QuotedFieldOk(args, f, flag, command) ==
  IF Get(args, f) = Undefined
  THEN FlagOmitted(flag, command)
  ELSE FlagOnce(flag, QuotedSegment(flag, Get(args, f)), command)

BareFieldOk(args, f, flag, command) ==
  IF Get(args, f) = Undefined
  THEN FlagOmitted(flag, command)
  ELSE FlagOnce(flag, BareSegment(flag, Get(args, f)), command)

\* C4: in the suffix built from validated arguments, an omitted optional
\* field has no flag and a supplied one has exactly one flag carrying its
\* value; --draft is appended bare exactly when draft is true.
C4_FlagIffFieldSupplied ==
  \A i \in Built :
    LET args == slots[i].req.arguments
        command == slots[i].command
    IN  /\ slots[i].req.name = "create_pr" =>
             /\ QuotedFieldOk(args, "body", " --body \"", command)
             /\ QuotedFieldOk(args, "base", " --base \"", command)
             /\ QuotedFieldOk(args, "head", " --head \"", command)
             /\ (Count(" --draft", command) = 1) = (Get(args, "draft") = Bool(TRUE))
             /\ Count(" --draft", command) <= 1
        /\ slots[i].req.name = "list_prs" =>
             /\ BareFieldOk(args, "state", " --state ", command)
             /\ BareFieldOk(args, "base", " --base ", command)
             /\ BareFieldOk(args, "limit", " --limit ", command)

\* the templates of the four tools, a flag for every supplied field
WhenSupplied(x, segment) == IF x = Undefined THEN <<>> ELSE segment

Template(name, args) ==
  CASE name = "create_pr" ->
         <<"pr create --title \"">> \o Get(args, "title").v \o <<"\"">>
           \o WhenSupplied(Get(args, "body"), QuotedSegment(" --body \"", Get(args, "body")))
           \o WhenSupplied(Get(args, "base"), QuotedSegment(" --base \"", Get(args, "base")))
           \o WhenSupplied(Get(args, "head"), QuotedSegment(" --head \"", Get(args, "head")))
           \o (IF Get(args, "draft") = Bool(TRUE) THEN <<" --draft">> ELSE <<>>)
    [] name = "list_prs" ->
         <<"pr list">>
           \o WhenSupplied(Get(args, "state"), BareSegment(" --state ", Get(args, "state")))
           \o WhenSupplied(Get(args, "base"), BareSegment(" --base ", Get(args, "base")))
           \o WhenSupplied(Get(args, "limit"), BareSegment(" --limit ", Get(args, "limit")))
    [] name = "view_pr" -> <<"pr view ">> \o JsToString(Get(args, "number"))
    [] name = "comment_pr" ->
         <<"pr comment ">> \o JsToString(Get(args, "number"))
           \o <<" --body \"">> \o Get(args, "body").v \o <<"\"">>

\* C5: the suffix handed to the executor equals the tool's template with the
\* argument values interpolated verbatim, in the fixed flag order.
C5_SuffixEqualsTemplate ==
  \A i \in Built :
    slots[i].command = Template(slots[i].req.name, slots[i].req.arguments)

\* a numeric value that is an integer greater than 0
PositiveInteger(x) == x.t = "number" /\ \E n \in 1..MaxNum : x.v = n + n

IsText(x) == x.t = "string"

Rejected(s) == s.pc = "thrown" /\ IsProtocolFailure(s.outcome, "InvalidParams")
Accepted(s) == s.pc # "thrown"

\* C6: view_pr and comment_pr accept an argument record exactly when its
\* number is a numeric integer greater than 0 (and, for comment_pr, body is
\* text); every other number, and a missing one, is rejected.
C6_NumberMustBePositiveInteger ==
  \A i \in Dispatched :
    LET s == slots[i]
        args == s.req.arguments
    IN  /\ s.req.name = "view_pr" =>
             IF args.t = "object" /\ PositiveInteger(Get(args, "number"))
             THEN Accepted(s) ELSE Rejected(s)
        /\ s.req.name = "comment_pr" =>
             IF args.t = "object" /\ PositiveInteger(Get(args, "number"))
                  /\ IsText(Get(args, "body"))
             THEN Accepted(s) ELSE Rejected(s)

C6_Witness ==
  \E i \in Dispatched :
    /\ slots[i].req.name = "view_pr"
    /\ Get(slots[i].req.arguments, "number") = Num(0)
    /\ Rejected(slots[i])

\* C7: list_prs rejects every argument record whose state is present and
\* outside {open, closed, merged, all}, and accepts the four enum values and
\* an absent state when base is absent or text and limit absent or a number.
C7_StateMustBeInEnum ==
  \A i \in Dispatched :
    LET s == slots[i]
        args == s.req.arguments
        state == Get(args, "state")
        base == Get(args, "base")
        limit == Get(args, "limit")
    IN  (s.req.name = "list_prs" /\ args.t = "object") =>
          /\ (state # Undefined /\ ~(IsText(state) /\ state.v \in StateEnum)) => Rejected(s)
          /\ ( /\ state = Undefined \/ (IsText(state) /\ state.v \in StateEnum)
               /\ base = Undefined \/ IsText(base)
               /\ limit = Undefined \/ limit.t \in {"number", "infinity"} ) => Accepted(s)

C7_Witness ==
  \E i \in Dispatched :
    /\ slots[i].req.name = "list_prs"
    /\ Get(slots[i].req.arguments, "state") = Str(<<"a">>)
    /\ Get(slots[i].req.arguments, "limit") = Int2(5)
    /\ Rejected(slots[i])

\* C8: every reply envelope holds exactly one text block; isError is present
\* (and true) only on a reply made from an executor failure; a reply made
\* from a successful execution carries the captured output unmodified and
\* has no isError flag.
C8_ReplyEnvelopeShape ==
  \A i \in Slots :
    slots[i].outcome.kind = "reply" =>
      LET reply == slots[i].outcome.reply
      IN  /\ Len(reply.content) = 1
          /\ reply.content[1].type = "text"
          /\ "isError" \in DOMAIN reply => (reply.isError = TRUE /\ ExecutorFailed(slots[i]))
          /\ slots[i].exec.kind = "ok" =>
               /\ "isError" \notin DOMAIN reply
               /\ reply.content[1].text = slots[i].exec.stdout

C8_Witness ==
  \E i \in Ended :
    /\ slots[i].exec = ExecOk(<<"o">>)
    /\ slots[i].outcome.kind = "reply"
    /\ slots[i].outcome.reply.content[1].text = <<"o">>

\* C9: a call invokes the Command Executor at most once: exactly once when
\* the tool is known and validation passes, whether the command then
\* succeeds or fails, and never when the tool is unknown or validation fails.
C9_ExecutorCalledAtMostOnce ==
  \A i \in Slots :
    LET s == slots[i]
    IN  /\ s.execs <= 1
        /\ i \in Ended =>
             (s.execs = 1) =
               (s.req.name \in KnownTools /\ Validator(s.req.name, s.req.arguments))

C9_Witness ==
  \E i \in Ended :
    /\ slots[i].req.name = "view_pr"
    /\ ExecutorFailed(slots[i])
    /\ slots[i].execs = 1

\* C10: handling is strictly sequential: while an invocation is between its
\* first step and its answer no other invocation has begun, and at no time
\* are two external commands running.
C10_OneInvocationAtATime ==
  /\ Cardinality({i \in Slots : slots[i].pc # "idle"}) <= 1
  /\ running <= 1
  /\ (running = 1) = (\E i \in Slots : slots[i].pc = "wait")

C10_Witness ==
  /\ inbox > 0
  /\ \E i \in Slots : slots[i].pc = "wait"

====
